---- MODULE Spec2Model ----
(***************************************************************************)
(* A model of sum_cli.py: the directive-driven summing evaluator           *)
(* (_eval_file and main) and its pure helpers (_parse_int_token,           *)
(* _sum_inclusive_range, _split_inline_comment, _read_lines).              *)
(*                                                                         *)
(* Text is a sequence of characters; a character is a one-letter string,   *)
(* except for the few characters that have no printable spelling, which    *)
(* are named below.                                                        *)
(***************************************************************************)
EXTENDS Integers, Sequences, FiniteSets, TLC

\* ------------------------------------------------------------- characters

NL == "NL"
CR == "CR"
TAB == "TAB"
BOM == "U+FEFF"
\* ARABIC-INDIC DIGIT ONE, a Unicode decimal digit (category Nd) of value 1
ArabicOne == "U+0661"

\* str.isspace() / the characters str.strip() removes
IsSpace(c) == c \in {" ", TAB, NL, CR}

\* the line boundaries of str.splitlines()
IsLineBreak(c) == c \in {NL, CR}

UpperLetters ==
    << "A", "B", "C", "D", "E", "F", "G", "H", "I", "J", "K", "L", "M",
       "N", "O", "P", "Q", "R", "S", "T", "U", "V", "W", "X", "Y", "Z" >>

LowerLetters ==
    << "a", "b", "c", "d", "e", "f", "g", "h", "i", "j", "k", "l", "m",
       "n", "o", "p", "q", "r", "s", "t", "u", "v", "w", "x", "y", "z" >>

AsciiDigits == << "0", "1", "2", "3", "4", "5", "6", "7", "8", "9" >>

IndexOf(seq, c) ==
    IF \E i \in 1..Len(seq) : seq[i] = c
    THEN CHOOSE i \in 1..Len(seq) : seq[i] = c
    ELSE 0

\* str.lower(), one character
LowerChar(c) ==
    IF IndexOf(UpperLetters, c) > 0 THEN LowerLetters[IndexOf(UpperLetters, c)] ELSE c

\* str.lower()
Lower(s) == [i \in 1..Len(s) |-> LowerChar(s[i])]

\* ---------------------------------------------------------------- strings

\* s[i:] of Python, i counted from 1 here
Drop(s, n) == SubSeq(s, n + 1, Len(s))

Take(s, n) == SubSeq(s, 1, n)

StartsWith(s, p) == Len(s) >= Len(p) /\ Take(s, Len(p)) = p

RECURSIVE LStrip(_)
LStrip(s) == IF s # << >> /\ IsSpace(s[1]) THEN LStrip(Tail(s)) ELSE s

RECURSIVE RStrip(_)
RStrip(s) ==
    IF s # << >> /\ IsSpace(s[Len(s)]) THEN RStrip(Take(s, Len(s) - 1)) ELSE s

\* str.strip()
Strip(s) == RStrip(LStrip(s))

\* str.replace(c, "")
RECURSIVE Remove(_, _)
Remove(s, c) ==
    IF s = << >> THEN << >>
    ELSE IF s[1] = c THEN Remove(Tail(s), c)
    ELSE << s[1] >> \o Remove(Tail(s), c)

\* str.find(p), counted from 1; 0 when p does not occur
Find(s, p) ==
    LET hits == {i \in 1..(Len(s) - Len(p) + 1) : SubSeq(s, i, i + Len(p) - 1) = p}
    IN  IF hits = {} THEN 0 ELSE CHOOSE i \in hits : \A j \in hits : i <= j

\* the first whitespace character of s, counted from 1; 0 when there is none
FirstSpace(s) ==
    LET hits == {i \in 1..Len(s) : IsSpace(s[i])}
    IN  IF hits = {} THEN 0 ELSE CHOOSE i \in hits : \A j \in hits : i <= j

\* str.split(maxsplit=1): split once on the first run of whitespace
SplitOnce(s) ==
    LET t == LStrip(s)
        k == FirstSpace(t)
        rest == IF k = 0 THEN << >> ELSE LStrip(Drop(t, k))
    IN  IF t = << >> THEN << >>
        ELSE IF k = 0 THEN << t >>
        ELSE IF rest = << >> THEN << Take(t, k - 1) >>
        ELSE << Take(t, k - 1), rest >>

DotDot == << ".", "." >>

\* ------------------------------------------------------------ int(s, base)

Invalid == [ok |-> FALSE, val |-> 0]

Valid(v) == [ok |-> TRUE, val |-> v]

\* the value int() gives one character: an ASCII digit, an ASCII letter of
\* either case, or a Unicode decimal digit
DigitValue(c) ==
    IF IndexOf(AsciiDigits, c) > 0 THEN IndexOf(AsciiDigits, c) - 1
    ELSE IF IndexOf(LowerLetters, LowerChar(c)) > 0
         THEN IndexOf(LowerLetters, LowerChar(c)) + 9
    ELSE IF c = ArabicOne THEN 1
    ELSE 37

RECURSIVE DigitsValue(_, _, _)
DigitsValue(s, base, acc) ==
    IF s = << >> THEN acc
    ELSE IF s[1] = "_" THEN DigitsValue(Tail(s), base, acc)
    ELSE DigitsValue(Tail(s), base, acc * base + DigitValue(s[1]))

\* the digits of int(): at least one, each below base, with single
\* underscores between them
PyDigits(digits, base) ==
    IF /\ digits # << >>
       /\ digits[1] # "_"
       /\ digits[Len(digits)] # "_"
       /\ \A i \in 1..Len(digits) :
            \/ digits[i] = "_" /\ i < Len(digits) /\ digits[i + 1] # "_"
            \/ digits[i] # "_" /\ DigitValue(digits[i]) < base
    THEN Valid(DigitsValue(digits, base, 0))
    ELSE Invalid

\* 0x, 0o or 0b before the digits, when it is the prefix of base
HasPrefix(body, base) ==
    /\ Len(body) >= 2
    /\ body[1] = "0"
    /\ \/ base = 16 /\ body[2] \in {"x", "X"}
       \/ base = 8 /\ body[2] \in {"o", "O"}
       \/ base = 2 /\ body[2] \in {"b", "B"}

\* one underscore may follow the prefix
SkipUnderscore(s) == IF s # << >> /\ s[1] = "_" THEN Tail(s) ELSE s

PyUnsigned(body, base) ==
    PyDigits(IF HasPrefix(body, base) THEN SkipUnderscore(Drop(body, 2)) ELSE body, base)

HasSign(t) == t # << >> /\ t[1] \in {"+", "-"}

Signed(t, r) == IF r.ok /\ t # << >> /\ t[1] = "-" THEN Valid(0 - r.val) ELSE r

PySigned(t, base) == Signed(t, PyUnsigned(IF HasSign(t) THEN Tail(t) ELSE t, base))

\* int(s, base) for base in 2..36: surrounding whitespace, a sign, the radix
\* prefix of base 2, 8 or 16, then the digits
PyInt(s, base) == PySigned(Strip(s), base)

\* ------------------------------------------------------------ pure helpers

strip_separators(token) == Remove(Remove(token, "_"), ",")

ParseStripped(t, base) == IF t = << >> THEN Invalid ELSE PyInt(t, base)

parse_int_token(token, base) == ParseStripped(strip_separators(Strip(token)), base)

\* the sum as (n/2)(lo+hi) with the division done first
sum_inclusive_range_halved(a, b) ==
    LET lo == IF a <= b THEN a ELSE b
        hi == IF a <= b THEN b ELSE a
        n == hi - lo + 1
    IN  (n \div 2) * (lo + hi)

sum_inclusive_range(a, b) ==
    LET lo == IF a <= b THEN a ELSE b
        hi == IF a <= b THEN b ELSE a
        n == hi - lo + 1
    IN  (n * (lo + hi)) \div 2

\* the first '#' of raw_line that starts the line or follows whitespace
CommentStart(raw_line) ==
    LET hits == {i \in 1..Len(raw_line) :
                    raw_line[i] = "#" /\ (i = 1 \/ IsSpace(raw_line[i - 1]))}
    IN  IF hits = {} THEN 0 ELSE CHOOSE i \in hits : \A j \in hits : i <= j

\* every '#' starts a comment
split_inline_comment_any_hash(raw_line) ==
    IF Find(raw_line, << "#" >>) = 0 THEN raw_line
    ELSE Take(raw_line, Find(raw_line, << "#" >>) - 1)

split_inline_comment(raw_line) ==
    IF CommentStart(raw_line) = 0 THEN raw_line
    ELSE Take(raw_line, CommentStart(raw_line) - 1)

\* str.lstrip(BOM) when the text starts with a byte-order mark
RECURSIVE LStripBom(_)
LStripBom(s) == IF s # << >> /\ s[1] = BOM THEN LStripBom(Tail(s)) ELSE s

strip_utf8_bom(s) == IF StartsWith(s, << BOM >>) THEN LStripBom(s) ELSE s

\* str.splitlines(): CR NL is one boundary, and a final boundary ends the
\* last line without opening a new one
RECURSIVE SplitLines(_, _)
SplitLines(s, cur) ==
    IF s = << >> THEN (IF cur = << >> THEN << >> ELSE << cur >>)
    ELSE IF s[1] = CR /\ Len(s) >= 2 /\ s[2] = NL
         THEN << cur >> \o SplitLines(Drop(s, 2), << >>)
    ELSE IF IsLineBreak(s[1]) THEN << cur >> \o SplitLines(Tail(s), << >>)
    ELSE SplitLines(Tail(s), Append(cur, s[1]))

read_lines_text(text) == SplitLines(strip_utf8_bom(text), << >>)

\* ------------------------------------------------------------------ paths
\* A Path is [abs, parts]: whether it is absolute, and its components. A
\* component is a text; pathlib drops empty components and "." components.

RECURSIVE SplitSlash(_, _)
SplitSlash(s, cur) ==
    IF s = << >> THEN << cur >>
    ELSE IF s[1] = "/" THEN << cur >> \o SplitSlash(Tail(s), << >>)
    ELSE SplitSlash(Tail(s), Append(cur, s[1]))

\* Path(text)
PathOf(text) ==
    [abs |-> text # << >> /\ text[1] = "/",
     parts |-> SelectSeq(SplitSlash(text, << >>), LAMBDA c : c # << >> /\ c # << "." >>)]

\* path.parent
Parent(p) ==
    [abs |-> p.abs,
     parts |-> IF p.parts = << >> THEN << >> ELSE Take(p.parts, Len(p.parts) - 1)]

\* path / other
Join(p, q) == IF q.abs THEN q ELSE [abs |-> p.abs, parts |-> p.parts \o q.parts]

\* -------------------------------------------------------------- filesystem
\* The directory tree is fixed: the root, which is also the working
\* directory, holds the text file a and the directory s; s holds the text
\* files a and b. An identity is the sequence of components from the root.

RootDir == << >>
SubDir == << << "s" >> >>
FileA == << << "a" >> >>
FileSA == << << "s" >>, << "a" >> >>
FileSB == << << "s" >>, << "b" >> >>

Dirs == {RootDir, SubDir}
TextFiles == {FileA, FileSA, FileSB}
Cwd == RootDir

Missing == [found |-> FALSE, at |-> << >>]

\* The walk the operating system makes from directory cur along parts: the
\* identity reached, or Missing. With lexical, a name that does not exist is
\* kept as written (os.path.realpath on a path that does not exist).
RECURSIVE WalkFrom(_, _, _)
WalkFrom(cur, parts, lexical) ==
    IF parts = << >>
    THEN IF lexical \/ cur \in Dirs \cup TextFiles
         THEN [found |-> TRUE, at |-> cur] ELSE Missing
    ELSE IF ~lexical /\ cur \notin Dirs THEN Missing
    ELSE IF parts[1] = DotDot
         THEN WalkFrom(IF cur = << >> THEN cur ELSE Take(cur, Len(cur) - 1),
                       Tail(parts), lexical)
    ELSE WalkFrom(Append(cur, parts[1]), Tail(parts), lexical)

Walk(p, lexical) == WalkFrom(IF p.abs THEN RootDir ELSE Cwd, p.parts, lexical)

\* path.exists()
Exists(p) == Walk(p, FALSE).found

\* path.resolve(): the identity used for cycle detection
Resolve(p) == IF Exists(p) THEN Walk(p, FALSE).at ELSE Walk(p, TRUE).at

\* path.read_text(): the kind of failure, or the text
ReadFails(p) == ~Exists(p) \/ Walk(p, FALSE).at \notin TextFiles

ReadError(p) == IF ~Exists(p) THEN "FileNotFoundError" ELSE "IsADirectoryError"

\* -------------------------------------------------------- one line of input
\* What the body of the for loop of _eval_file does with one raw line, up to
\* the point where it needs the file system: op says how the iteration ends.

Continue == [op |-> "continue", kind |-> "", msg |-> "", val |-> 0, text |-> << >>]

SetBase(b) == [op |-> "set_base", kind |-> "", msg |-> "", val |-> b, text |-> << >>]

Add(v) == [op |-> "add", kind |-> "", msg |-> "", val |-> v, text |-> << >>]

Include(t) == [op |-> "include", kind |-> "", msg |-> "", val |-> 0, text |-> t]

Raise(k, m, t) == [op |-> "raise", kind |-> k, msg |-> m, val |-> 0, text |-> t]

\* any integer is taken as the new base
base_value_unchecked(new_base, arg) ==
    IF ~new_base.ok THEN Raise("ParseError", "@base argument must be an integer", arg)
    ELSE SetBase(new_base.val)

base_value(new_base, arg) ==
    IF ~new_base.ok THEN Raise("ParseError", "@base argument must be an integer", arg)
    ELSE IF ~(2 <= new_base.val /\ new_base.val <= 36)
    THEN Raise("ParseError", "@base must be in the range 2..36", arg)
    ELSE SetBase(new_base.val)

base_directive(parts) ==
    IF Len(parts) # 2 THEN Raise("ParseError", "@base requires an argument", << >>)
    ELSE base_value(PyInt(Strip(parts[2]), 10), parts[2])

include_directive(parts) ==
    IF Len(parts) # 2 THEN Raise("ParseError", "@include requires a path", << >>)
    ELSE IF Strip(parts[2]) = << >>
    THEN Raise("ParseError", "@include requires a non-empty path", << >>)
    ELSE Include(Strip(parts[2]))

\* int() raises ValueError on a bad endpoint, and nothing here catches it
range_endpoints(a, b) ==
    IF ~a.ok \/ ~b.ok THEN Raise("ValueError", "invalid literal for int()", << >>)
    ELSE Add(sum_inclusive_range(a.val, b.val))

range_spec(spec, cur_base) ==
    IF Find(spec, DotDot) = 0
    THEN Raise("ParseError", "@range must be of the form A..B", spec)
    ELSE range_endpoints(parse_int_token(Take(spec, Find(spec, DotDot) - 1), cur_base),
                         parse_int_token(Drop(spec, Find(spec, DotDot) + 1), cur_base))

range_directive(parts, cur_base) ==
    IF Len(parts) # 2 THEN Raise("ParseError", "@range requires A..B", << >>)
    ELSE range_spec(Strip(parts[2]), cur_base)

dispatch(parts, cmd, cur_base) ==
    IF cmd = << "@", "b", "a", "s", "e" >> THEN base_directive(parts)
    ELSE IF cmd = << "@", "i", "n", "c", "l", "u", "d", "e" >>
    THEN include_directive(parts)
    ELSE IF cmd = << "@", "r", "a", "n", "g", "e" >>
    THEN range_directive(parts, cur_base)
    ELSE Raise("ParseError", "unknown directive", cmd)

command(parts) == Lower(parts[1])

\* an inline comment is cut off a directive line before it is split
directive_without_comment(stripped, cur_base) ==
    dispatch(SplitOnce(Strip(split_inline_comment(stripped))),
             command(SplitOnce(Strip(split_inline_comment(stripped)))), cur_base)

directive(stripped, cur_base) ==
    dispatch(SplitOnce(stripped), command(SplitOnce(stripped)), cur_base)

\* an invalid token is skipped even with --strict
data_token_never_strict(r, data, strict) ==
    IF r.ok THEN Add(r.val) ELSE Continue

data_token(r, data, strict) ==
    IF r.ok THEN Add(r.val)
    ELSE IF strict THEN Raise("ParseError", "invalid integer token", data)
    ELSE Continue

data_stripped(data, cur_base, strict) ==
    IF data = << >> THEN Continue
    ELSE data_token(parse_int_token(data, cur_base), data, strict)

data_line(raw, cur_base, strict) ==
    data_stripped(Strip(split_inline_comment(raw)), cur_base, strict)

classify(raw, stripped, cur_base, strict) ==
    IF stripped = << >> THEN Continue
    ELSE IF stripped[1] = "#" THEN Continue
    ELSE IF stripped[1] = "@" THEN directive(stripped, cur_base)
    ELSE data_line(raw, cur_base, strict)

process_line(raw, cur_base, strict) == classify(raw, Strip(raw), cur_base, strict)

\* ------------------------------------------------------------------ inputs

\* lines that build include graphs
GraphLines ==
    { << "1", "0" >>,
      << "@", "b", "a", "s", "e", " ", "1", "6" >>,
      << "@", "i", "n", "c", "l", "u", "d", "e", " ", "a" >>,
      << "@", "i", "n", "c", "l", "u", "d", "e", " ", "s", "/", "b" >>,
      << "@", "i", "n", "c", "l", "u", "d", "e", " ", ".", ".", "/", "a" >>,
      << "z", "z" >> }

\* blank lines, comments, data tokens and directives, well-formed and not
OtherLines ==
    { << >>,
      << "@", "i", "n", "c", "l", "u", "d", "e", " ", "x" >>,
      << "@", "i", "n", "c", "l", "u", "d", "e", " ", "b" >>,
      << "@", "i", "n", "c", "l", "u", "d", "e", " ", "." >>,
      << " ", " " >>,
      << "#", " ", "c" >>,
      << " ", " ", "#", " ", "c" >>,
      << "-", "3" >>,
      << "+", "1", "_", "0" >>,
      << "2", ",", "0" >>,
      << "f", "f" >>,
      << "z" >>,
      << "4", "#", "b", "a", "d" >>,
      << "2", " ", "#", " ", "c" >>,
      << "1", " ", "0" >>,
      << ArabicOne >>,
      << "0", "x", "1", "0" >>,
      << " ", "7", " " >>,
      << "@", "b", "a", "s", "e", " ", "2" >>,
      << "@", "B", "A", "S", "E", " ", "3", "6" >>,
      << "@", "b", "a", "s", "e", TAB, "1", "0" >>,
      << "@", "b", "a", "s", "e" >>,
      << "@", "b", "a", "s", "e", " ", "1" >>,
      << "@", "b", "a", "s", "e", " ", "3", "7" >>,
      << "@", "b", "a", "s", "e", " ", "x" >>,
      << "@", "b", "a", "s", "e", " ", "1", "_", "6" >>,
      << "@", "b", "a", "s", "e", " ", "1", "6", " ", "#", " ", "c" >>,
      << "@", "i", "n", "c", "l", "u", "d", "e" >>,
      << "@", "i", "n", "c", "l", "u", "d", "e", " ", "/", "s", "/", "a" >>,
      << "@", "i", "n", "c", "l", "u", "d", "e", " ", "s", "/", "b", " ", "#", " ", "c" >>,
      << "@", "r", "a", "n", "g", "e", " ", "1", ".", ".", "3" >>,
      << "@", "r", "a", "n", "g", "e", " ", "3", ".", ".", "1" >>,
      << "@", "r", "a", "n", "g", "e", " ", "a", ".", ".", "f" >>,
      << "@", "r", "a", "n", "g", "e", " ", "-", "2", ".", ".", "1" >>,
      << "@", "r", "a", "n", "g", "e", " ", "1", " ", ".", ".", " ", "3" >>,
      << "@", "r", "a", "n", "g", "e" >>,
      << "@", "r", "a", "n", "g", "e", " ", "1" >>,
      << "@", "r", "a", "n", "g", "e", " ", "1", ".", "." >>,
      << "@", "r", "a", "n", "g", "e", " ", ".", ".", "1" >>,
      << "@", "r", "a", "n", "g", "e", " ", "1", ".", ".", "z" >>,
      << "@", "r", "a", "n", "g", "e", " ", "1", ".", ".", "3", " ", "#", " ", "c" >>,
      << "@", "f", "o", "o", " ", "1" >>,
      << "@" >>,
      << "@", "b", "a", "s", "e", "m", "e", "n", "t", " ", "1", "6" >> }

AllLines == GraphLines \cup OtherLines

\* lines that set up a base and a running total before the line under test
PrefixLines ==
    { << "1", "0" >>,
      << "@", "b", "a", "s", "e", " ", "1", "6" >> }

\* the most lines the files of an include graph hold together
MaxLines == 3

\* the most lines that precede the line under test
MaxPrefix == 1

SeqsUpTo(S, n) == UNION {[1..k -> S] : k \in 0..n}

\* the text of a file written line by line, each line ended by a newline
RECURSIVE JoinLines(_)
JoinLines(ls) == IF ls = << >> THEN << >> ELSE ls[1] \o << NL >> \o JoinLines(Tail(ls))

FileSystem(a, sa, sb) ==
    [f \in TextFiles |-> IF f = FileA THEN a ELSE IF f = FileSA THEN sa ELSE sb]

Args(b, st, input) == [base |-> b, strict |-> st, input_file |-> input]

\* ------------------------------------------------------------------- state

VARIABLES
    unit,       \* one call of a pure helper: its arguments and its result
    argv,       \* the parsed command line: base, strict, input_file
    fs,         \* the text of every text file
    pc,         \* where main is: "start", "eval", "done"
    frames,     \* the activations of _eval_file, outermost first
    stack,      \* the list `stack` shared by all activations
    exc,        \* the exception being propagated, if any
    reads,      \* the identities read_text was called on, in order
    exit_code,  \* the value main returned, once it has
    stdout,
    stderr

vars == << unit, argv, fs, pc, frames, stack, exc, reads, exit_code, stdout, stderr >>

NoExc == [kind |-> "none", msg |-> "", text |-> << >>, chain |-> << >>]

Exc(k, m, t) == [kind |-> k, msg |-> m, text |-> t, chain |-> << >>]

NotExited == 0 - 1

\* the locals of one activation of _eval_file; entry_stack records the
\* contents of `stack` at the call, for stating what the call leaves behind
NewFrame(path, base, strict, stk) ==
    [path |-> path, base |-> base, strict |-> strict, at |-> "enter",
     resolved |-> << >>, lines |-> << >>, i |-> 1, total |-> 0,
     cur_base |-> base, entry_stack |-> stk]

Top == frames[Len(frames)]

SetTop(f) == [frames EXCEPT ![Len(frames)] = f]

Pop(s) == Take(s, Len(s) - 1)

InSeq(x, s) == \E k \in 1..Len(s) : s[k] = x

Running == pc = "eval" /\ frames # << >> /\ exc = NoExc

NoUnit == [fn |-> "none"]

InitRest ==
    /\ unit = NoUnit
    /\ pc = "start"
    /\ frames = << >>
    /\ stack = << >>
    /\ exc = NoExc
    /\ reads = << >>
    /\ exit_code = NotExited
    /\ stdout = << >>
    /\ stderr = << >>

\* include graphs: the lines of the three files drawn from GraphLines, read
\* with --strict so that a bad token in an included file raises
InitGraph ==
    /\ \E all \in SeqsUpTo(GraphLines, MaxLines) :
         \E i \in 0..Len(all) : \E j \in i..Len(all) :
            fs = FileSystem(JoinLines(SubSeq(all, 1, i)),
                            JoinLines(SubSeq(all, i + 1, j)),
                            JoinLines(SubSeq(all, j + 1, Len(all))))
    /\ argv = Args(10, TRUE, << << "a" >> >>)
    /\ InitRest

\* single lines: any line of the catalogue after a short prefix, in file a
InitLines ==
    /\ \E pre \in SeqsUpTo(PrefixLines, MaxPrefix) : \E l \in AllLines :
         fs = FileSystem(JoinLines(Append(pre, l)),
                         JoinLines(<< << "@", "b", "a", "s", "e", " ", "1", "6" >>,
                                      << "1", "0" >> >>),
                         JoinLines(<< << "1", "0" >> >>))
    /\ \E b \in {2, 10, 16, 36} : \E st \in BOOLEAN :
         argv = Args(b, st, << << "a" >> >>)
    /\ InitRest

\* command lines: bases in and out of range, input paths present and not
InitArgs ==
    /\ fs = FileSystem(JoinLines(<< << "1", "0" >> >>),
                       JoinLines(<< << "@", "i", "n", "c", "l", "u", "d", "e", " ", "b" >> >>),
                       JoinLines(<< << "1", "0" >> >>))
    /\ \E b \in {1, 2, 10, 36, 37} : \E st \in BOOLEAN :
         \E input \in { << >>, << << "a" >> >>, << << "x" >> >>, << << "s" >> >>,
                        << << "s", "/", "a" >> >>, << << "/", "s", "/", "b" >> >> } :
            argv = Args(b, st, input)
    /\ InitRest

\* data lines: valid in every base, valid in base 16 only, never valid, and
\* followed by an inline comment
DataLines ==
    { << "1", "0" >>,
      << "f", "f" >>,
      << "-", "3" >>,
      << "4", "#", "b", "a", "d" >>,
      << "2", " ", "#", " ", "c" >> }

\* the most lines of a file of data lines
MaxData == 3

\* files without directives: file a holds data lines only
InitData ==
    /\ \E ls \in SeqsUpTo(DataLines, MaxData) :
         fs = FileSystem(JoinLines(ls), << >>, << >>)
    /\ \E b \in {10, 16} : \E st \in BOOLEAN : argv = Args(b, st, << << "a" >> >>)
    /\ InitRest

\* repeated includes: a includes twice, s/b may pass on to s/a
InitRepeat ==
    /\ \E l1, l2 \in { << "@", "i", "n", "c", "l", "u", "d", "e", " ", "s", "/", "b" >>,
                        << "@", "i", "n", "c", "l", "u", "d", "e", " ", "/", "s", "/", "a" >>,
                        << "1", "0" >> } :
         \E m \in { << "@", "i", "n", "c", "l", "u", "d", "e", " ", "a" >>,
                    << "@", "b", "a", "s", "e", " ", "1", "6" >>,
                    << "1", "0" >> } :
            \E d \in { << "1", "0" >>, << "z", "z" >> } :
                fs = FileSystem(JoinLines(<< l1, l2 >>), JoinLines(<< d >>), JoinLines(<< m >>))
    /\ \E st \in BOOLEAN : argv = Args(10, st, << << "a" >> >>)
    /\ InitRest

Init == InitGraph \/ InitLines \/ InitArgs \/ InitData \/ InitRepeat

\* -------------------------------------------------------------------- main

Finish(code, out, err) ==
    /\ pc' = "done"
    /\ exit_code' = code
    /\ stdout' = out
    /\ stderr' = err

InputPath == PathOf(argv.input_file[1])

\* _parse_args raises when the positional argument is absent
MainUsage ==
    /\ pc = "start"
    /\ argv.input_file = << >>
    /\ Finish(2, << >>, << "Usage" >>)
    /\ UNCHANGED << unit, argv, fs, frames, stack, exc, reads >>

MainBadBase ==
    /\ pc = "start"
    /\ argv.input_file # << >>
    /\ ~(2 <= argv.base /\ argv.base <= 36)
    /\ Finish(2, << >>, << "Error: --base must be in the range 2..36" >>)
    /\ UNCHANGED << unit, argv, fs, frames, stack, exc, reads >>

MainNotFound ==
    /\ pc = "start"
    /\ argv.input_file # << >>
    /\ 2 <= argv.base /\ argv.base <= 36
    /\ ~Exists(InputPath)
    /\ Finish(1, << >>, << "Error: File not found" >>)
    /\ UNCHANGED << unit, argv, fs, frames, stack, exc, reads >>

\* total = _eval_file(input_path, base=args.base, strict=args.strict, stack=[])
MainCall ==
    /\ pc = "start"
    /\ argv.input_file # << >>
    /\ 2 <= argv.base /\ argv.base <= 36
    /\ Exists(InputPath)
    /\ pc' = "eval"
    /\ frames' = << NewFrame(InputPath, argv.base, argv.strict, << >>) >>
    /\ stack' = << >>
    /\ UNCHANGED << unit, argv, fs, exc, reads, exit_code, stdout, stderr >>

\* every except clause returns 1
ExceptExitCode_always_one(kind) ==
    IF kind \in {"IncludeCycleError", "IncludeIOError", "ParseError", "FileNotFoundError"}
    THEN 1 ELSE 0

\* the exit code of the except clause of main that catches kind; 0 when no
\* clause catches it
ExceptExitCode(kind) ==
    IF kind = "IncludeCycleError" THEN 1
    ELSE IF kind = "IncludeIOError" THEN 1
    ELSE IF kind = "ParseError" THEN 2
    ELSE IF kind = "FileNotFoundError" THEN 1
    ELSE 0

MainExcept ==
    /\ pc = "eval"
    /\ frames = << >>
    /\ exc # NoExc
    /\ ExceptExitCode(exc.kind) # 0
    /\ Finish(ExceptExitCode(exc.kind), << >>, << "Error" >>)
    /\ UNCHANGED << unit, argv, fs, frames, stack, exc, reads >>

\* no except clause matches: the interpreter prints the traceback and exits 1
MainUncaught ==
    /\ pc = "eval"
    /\ frames = << >>
    /\ exc # NoExc
    /\ ExceptExitCode(exc.kind) = 0
    /\ Finish(1, << >>, << "Traceback" >>)
    /\ UNCHANGED << unit, argv, fs, frames, stack, exc, reads >>

\* --------------------------------------------------------------- _eval_file

\* only the direct includer is compared
cycle_detected_includer_only(resolved, stk) ==
    stk # << >> /\ stk[Len(stk)] = resolved

\* only the outermost file is compared
cycle_detected_root_only(resolved, stk) ==
    stk # << >> /\ stk[1] = resolved

\* no comparison at all
cycle_detected_never(resolved, stk) == FALSE

\* `resolved in stack`
cycle_detected(resolved, stk) == InSeq(resolved, stk)

\* raised before the try block: nothing was pushed, nothing is popped
EnterCycle ==
    /\ Running
    /\ Top.at = "enter"
    /\ cycle_detected(Resolve(Top.path), stack)
    /\ exc' = [kind |-> "IncludeCycleError", msg |-> "include cycle detected",
               text |-> << >>, chain |-> Append(stack, Resolve(Top.path))]
    /\ frames' = Pop(frames)
    /\ UNCHANGED << unit, argv, fs, pc, stack, reads, exit_code, stdout, stderr >>

\* stack.append(resolved)
EnterPush ==
    /\ Running
    /\ Top.at = "enter"
    /\ ~cycle_detected(Resolve(Top.path), stack)
    /\ stack' = Append(stack, Resolve(Top.path))
    /\ frames' = SetTop([Top EXCEPT !.at = "read", !.resolved = Resolve(Top.path)])
    /\ UNCHANGED << unit, argv, fs, pc, exc, reads, exit_code, stdout, stderr >>

\* _read_lines(path) raises
ReadFail ==
    /\ Running
    /\ Top.at = "read"
    /\ ReadFails(Top.path)
    /\ exc' = Exc(ReadError(Top.path), "read_text", << >>)
    /\ reads' = Append(reads, Top.resolved)
    /\ UNCHANGED << unit, argv, fs, pc, frames, stack, exit_code, stdout, stderr >>

ReadOk ==
    /\ Running
    /\ Top.at = "read"
    /\ ~ReadFails(Top.path)
    /\ frames' = SetTop([Top EXCEPT !.at = "loop", !.i = 1,
                              !.lines = read_lines_text(fs[Walk(Top.path, FALSE).at])])
    /\ reads' = Append(reads, Top.resolved)
    /\ UNCHANGED << unit, argv, fs, pc, stack, exc, exit_code, stdout, stderr >>

AtLine == Running /\ Top.at = "loop" /\ Top.i <= Len(Top.lines)

\* the base the activation was called with, whatever @base said since
token_base_initial(f) == f.base

\* the base the tokens of the current line are parsed in
token_base(f) == f.cur_base

\* process_line on every line of the catalogue, in every base, strict or not:
\* the outcomes are computed once and looked up at each step
EffectOf ==
    [l \in AllLines, b \in 2..36, st \in BOOLEAN |-> process_line(l, b, st)]

Effect == EffectOf[Top.lines[Top.i], token_base(Top), Top.strict]

LineContinue ==
    /\ AtLine
    /\ \E eff \in {Effect} : eff.op = "continue"
    /\ frames' = SetTop([Top EXCEPT !.i = @ + 1])
    /\ UNCHANGED << unit, argv, fs, pc, stack, exc, reads, exit_code, stdout, stderr >>

\* cur_base = new_base
LineSetBase ==
    /\ AtLine
    /\ \E eff \in {Effect} :
         /\ eff.op = "set_base"
         /\ frames' = SetTop([Top EXCEPT !.i = @ + 1, !.cur_base = eff.val])
    /\ UNCHANGED << unit, argv, fs, pc, stack, exc, reads, exit_code, stdout, stderr >>

\* total += ...
LineAdd ==
    /\ AtLine
    /\ \E eff \in {Effect} :
         /\ eff.op = "add"
         /\ frames' = SetTop([Top EXCEPT !.i = @ + 1, !.total = @ + eff.val])
    /\ UNCHANGED << unit, argv, fs, pc, stack, exc, reads, exit_code, stdout, stderr >>

LineRaise ==
    /\ AtLine
    /\ \E eff \in {Effect} :
         /\ eff.op = "raise"
         /\ exc' = Exc(eff.kind, eff.msg, eff.text)
    /\ UNCHANGED << unit, argv, fs, pc, frames, stack, reads, exit_code, stdout, stderr >>

\* inc_path as written, which the system resolves in the working directory
include_path_from_cwd(path, inc_path) == inc_path

\* inc_path, made relative to path.parent unless it is absolute
include_path(path, inc_path) ==
    IF inc_path.abs THEN inc_path ELSE Join(Parent(path), inc_path)

IncludeMissing ==
    /\ AtLine
    /\ \E eff \in {Effect} :
         /\ eff.op = "include"
         /\ \E inc_path \in {include_path(Top.path, PathOf(eff.text))} :
              /\ ~Exists(inc_path)
              /\ exc' = Exc("IncludeIOError", "include file not found", inc_path)
    /\ UNCHANGED << unit, argv, fs, pc, frames, stack, reads, exit_code, stdout, stderr >>

\* the base the includer itself started with
include_base_initial(f) == f.base

\* the base an included file starts with
include_base(f) == f.cur_base

\* _eval_file(inc_path, base=cur_base, strict=strict, stack=stack)
IncludeCall ==
    /\ AtLine
    /\ \E eff \in {Effect} :
         /\ eff.op = "include"
         /\ \E inc_path \in {include_path(Top.path, PathOf(eff.text))} :
              /\ Exists(inc_path)
              /\ frames' = Append(frames, NewFrame(inc_path, include_base(Top),
                                                   Top.strict, stack))
    /\ UNCHANGED << unit, argv, fs, pc, stack, exc, reads, exit_code, stdout, stderr >>

AtEnd == Running /\ Top.at = "loop" /\ Top.i > Len(Top.lines)

\* no finally clause
finally_pop_missing(stk) == stk

\* finally: stack.pop()
finally_pop(stk) == Pop(stk)

\* the base of the included file carried back into the includer
after_include_leaking_base(caller, callee) ==
    [caller EXCEPT !.i = @ + 1, !.total = @ + callee.total, !.cur_base = callee.cur_base]

\* the includer after `total += _eval_file(...)` and `continue`
after_include(caller, callee) ==
    [caller EXCEPT !.i = @ + 1, !.total = @ + callee.total]

ReturnToIncluder ==
    /\ AtEnd
    /\ Len(frames) > 1
    /\ stack' = finally_pop(stack)
    /\ frames' = [Pop(frames) EXCEPT ![Len(frames) - 1] = after_include(@, Top)]
    /\ UNCHANGED << unit, argv, fs, pc, exc, reads, exit_code, stdout, stderr >>

\* the outermost call returns and main prints SUM=<total>
ReturnToMain ==
    /\ AtEnd
    /\ Len(frames) = 1
    /\ stack' = finally_pop(stack)
    /\ frames' = << >>
    /\ Finish(0, << << "SUM=", Top.total >> >>, << >>)
    /\ UNCHANGED << unit, argv, fs, exc, reads >>

\* an exception leaves an activation through its finally clause
Unwind ==
    /\ pc = "eval"
    /\ frames # << >>
    /\ exc # NoExc
    /\ stack' = finally_pop(stack)
    /\ frames' = Pop(frames)
    /\ UNCHANGED << unit, argv, fs, pc, exc, reads, exit_code, stdout, stderr >>

Next ==
    \/ MainUsage
    \/ MainBadBase
    \/ MainNotFound
    \/ MainCall
    \/ MainExcept
    \/ MainUncaught
    \/ EnterCycle
    \/ EnterPush
    \/ ReadFail
    \/ ReadOk
    \/ LineContinue
    \/ LineSetBase
    \/ LineAdd
    \/ LineRaise
    \/ IncludeMissing
    \/ IncludeCall
    \/ ReturnToIncluder
    \/ ReturnToMain
    \/ Unwind

Spec == Init /\ [][Next]_vars

FairSpec == Spec /\ WF_vars(Next)

\* ------------------------------------------------- the pure helpers, alone

Idle ==
    /\ argv = Args(10, FALSE, << >>)
    /\ fs = FileSystem(<< >>, << >>, << >>)
    /\ pc = "idle"
    /\ frames = << >>
    /\ stack = << >>
    /\ exc = NoExc
    /\ reads = << >>
    /\ exit_code = NotExited
    /\ stdout = << >>
    /\ stderr = << >>

EvaluatorVars == << argv, fs, pc, frames, stack, exc, reads, exit_code, stdout, stderr >>

TokenChars == {"0", "1", "9", "b", "Z", "x", "+", "-", "_", ",", " ", ArabicOne}

TokenBases == {2, 10, 16, 36}

\* the longest token tried
MaxTokenLen == 3

InitToken ==
    /\ \E t \in SeqsUpTo(TokenChars, MaxTokenLen) : \E b \in TokenBases :
         unit = [fn |-> "parse_int_token", token |-> t, base |-> b,
                 done |-> FALSE, out |-> Invalid]
    /\ Idle

ParseToken ==
    /\ unit.fn = "parse_int_token"
    /\ ~unit.done
    /\ unit' = [unit EXCEPT !.done = TRUE, !.out = parse_int_token(unit.token, unit.base)]
    /\ UNCHANGED EvaluatorVars

SpecToken == InitToken /\ [][ParseToken]_vars

\* the largest magnitude of a range endpoint tried
MaxEndpoint == 6

InitRange ==
    /\ \E a \in (0 - MaxEndpoint)..MaxEndpoint : \E b \in (0 - MaxEndpoint)..MaxEndpoint :
         unit = [fn |-> "sum_inclusive_range", a |-> a, b |-> b,
                 done |-> FALSE, out |-> 0, rev |-> 0]
    /\ Idle

\* @range A..B and @range B..A
SumRange ==
    /\ unit.fn = "sum_inclusive_range"
    /\ ~unit.done
    /\ unit' = [unit EXCEPT !.done = TRUE,
                            !.out = sum_inclusive_range(unit.a, unit.b),
                            !.rev = sum_inclusive_range(unit.b, unit.a)]
    /\ UNCHANGED EvaluatorVars

SpecRange == InitRange /\ [][SumRange]_vars

CommentChars == {"4", "#", " ", "b", "a", "d"}

\* the longest raw line tried
MaxRawLen == 5

InitComment ==
    /\ \E raw \in SeqsUpTo(CommentChars, MaxRawLen) :
         unit = [fn |-> "split_inline_comment", raw |-> raw, done |-> FALSE, out |-> << >>]
    /\ Idle

\* data = _split_inline_comment(raw)
SplitComment ==
    /\ unit.fn = "split_inline_comment"
    /\ ~unit.done
    /\ unit' = [unit EXCEPT !.done = TRUE, !.out = split_inline_comment(unit.raw)]
    /\ UNCHANGED EvaluatorVars

SpecComment == InitComment /\ [][SplitComment]_vars

TextChars == {BOM, "1", NL, CR}

\* the longest file text tried
MaxTextLen == 4

InitRead ==
    /\ \E text \in SeqsUpTo(TextChars, MaxTextLen) :
         unit = [fn |-> "read_lines", text |-> text, done |-> FALSE, out |-> << >>]
    /\ Idle

\* _read_lines on a file whose text is unit.text
ReadLines ==
    /\ unit.fn = "read_lines"
    /\ ~unit.done
    /\ unit' = [unit EXCEPT !.done = TRUE, !.out = read_lines_text(unit.text)]
    /\ UNCHANGED EvaluatorVars

SpecRead == InitRead /\ [][ReadLines]_vars

\* ------------------------------------------------------------ compare_json
\* A JSON value carries the name of its Python type. A float is counted in
\* ten-thousandths. The keys of a dict are kept in sorted order, the order
\* in which _first_diff visits them, with their values beside them.

JNone == [type |-> "NoneType", num |-> 0, str |-> "", keys |-> << >>, vals |-> << >>]

JInt(n) == [type |-> "int", num |-> n, str |-> "", keys |-> << >>, vals |-> << >>]

JFloat(n) == [type |-> "float", num |-> n, str |-> "", keys |-> << >>, vals |-> << >>]

JStr(t) == [type |-> "str", num |-> 0, str |-> t, keys |-> << >>, vals |-> << >>]

JList(vs) == [type |-> "list", num |-> 0, str |-> "", keys |-> << >>, vals |-> vs]

JDict(ks, vs) == [type |-> "dict", num |-> 0, str |-> "", keys |-> ks, vals |-> vs]

\* k in d
HasKey(d, k) == InSeq(k, d.keys)

\* d[k]
Get(d, k) == d.vals[IndexOf(d.keys, k)]

\* str(i) for the indexes of a list
IndexNames == << "0", "1", "2", "3" >>

\* pointer + "/" + str(k): a pointer is the text itself, each "/" and each
\* key or index one element of it
ChildPtr(pointer, k) == pointer \o << "/", k >>

\* pointer.count("/")
SlashCount(pointer) == Len(SelectSeq(pointer, LAMBDA c : c = "/"))

top_level_ignore(pointer, ignores) ==
    IF SlashCount(pointer) > 1 THEN FALSE ELSE InSeq(pointer, ignores)

NoDiff == [found |-> FALSE, ptr |-> << >>, exp_v |-> JNone, act_v |-> JNone]

Diff(pointer, e, a) == [found |-> TRUE, ptr |-> pointer, exp_v |-> e, act_v |-> a]

RECURSIVE first_diff(_, _, _, _)
RECURSIVE expected_keys_diff(_, _, _, _, _)
RECURSIVE list_diff(_, _, _, _, _)

\* for k in act_keys: the first key of actual that expected lacks
actual_keys_diff(expected, actual, pointer) ==
    IF \E i \in 1..Len(actual.keys) : ~HasKey(expected, actual.keys[i])
    THEN Diff(ChildPtr(pointer,
                       actual.keys[CHOOSE i \in 1..Len(actual.keys) :
                           /\ ~HasKey(expected, actual.keys[i])
                           /\ \A j \in 1..(i - 1) : HasKey(expected, actual.keys[j])]),
              JNone,
              Get(actual,
                  actual.keys[CHOOSE i \in 1..Len(actual.keys) :
                      /\ ~HasKey(expected, actual.keys[i])
                      /\ \A j \in 1..(i - 1) : HasKey(expected, actual.keys[j])]))
    ELSE NoDiff

\* for k in exp_keys, from the i-th key on
expected_keys_diff(expected, actual, pointer, ignores, i) ==
    IF i > Len(expected.keys) THEN actual_keys_diff(expected, actual, pointer)
    ELSE IF ~HasKey(actual, expected.keys[i])
    THEN Diff(ChildPtr(pointer, expected.keys[i]), expected.vals[i], JNone)
    ELSE IF first_diff(expected.vals[i], Get(actual, expected.keys[i]),
                       ChildPtr(pointer, expected.keys[i]), ignores).found
    THEN first_diff(expected.vals[i], Get(actual, expected.keys[i]),
                    ChildPtr(pointer, expected.keys[i]), ignores)
    ELSE expected_keys_diff(expected, actual, pointer, ignores, i + 1)

\* for i in range(n), from index i on (counted from 1 here), then the lengths
list_diff(expected, actual, pointer, ignores, i) ==
    IF i <= Len(expected.vals) /\ i <= Len(actual.vals)
    THEN IF first_diff(expected.vals[i], actual.vals[i],
                       ChildPtr(pointer, IndexNames[i]), ignores).found
         THEN first_diff(expected.vals[i], actual.vals[i],
                         ChildPtr(pointer, IndexNames[i]), ignores)
         ELSE list_diff(expected, actual, pointer, ignores, i + 1)
    ELSE IF Len(expected.vals) # Len(actual.vals)
    THEN Diff(ChildPtr(pointer, IndexNames[i]),
              IF i <= Len(expected.vals) THEN expected.vals[i] ELSE JNone,
              IF i <= Len(actual.vals) THEN actual.vals[i] ELSE JNone)
    ELSE NoDiff

first_diff(expected, actual, pointer, ignores) ==
    IF top_level_ignore(pointer, ignores) THEN NoDiff
    ELSE IF expected.type # actual.type THEN Diff(pointer, expected, actual)
    ELSE IF expected.type = "dict"
    THEN expected_keys_diff(expected, actual, pointer, ignores, 1)
    ELSE IF expected.type = "list" THEN list_diff(expected, actual, pointer, ignores, 1)
    ELSE IF expected # actual THEN Diff(pointer, expected, actual)
    ELSE NoDiff

\* what main writes to stdout and returns, given the result of _first_diff
Report(d) ==
    IF ~d.found
    THEN [exit_code |-> 0, verdict |-> "EQUAL", first_diff |-> << >>,
          exp_v |-> JNone, act_v |-> JNone]
    ELSE [exit_code |-> 2, verdict |-> "NOT_EQUAL",
          first_diff |-> IF d.ptr = << >> THEN << "/" >> ELSE d.ptr,
          exp_v |-> d.exp_v, act_v |-> d.act_v]

\* --expected or --actual is missing: usage on stderr, nothing on stdout
UsageReport ==
    [exit_code |-> 1, verdict |-> "", first_diff |-> << >>, exp_v |-> JNone, act_v |-> JNone]

\* a document {"items": [...], "meta": {"generated_at": g, "version": v},
\* "n": n, "values": [...]}; n is left out when with_n is false
Doc(items, g, v, with_n, n, values) ==
    IF with_n
    THEN JDict(<< "items", "meta", "n", "values" >>,
               << JList(items),
                  JDict(<< "generated_at", "version" >>, << JStr(g), JInt(v) >>),
                  JFloat(n),
                  JList(values) >>)
    ELSE JDict(<< "items", "meta", "values" >>,
               << JList(items),
                  JDict(<< "generated_at", "version" >>, << JStr(g), JInt(v) >>),
                  JList(values) >>)

ItemLists ==
    { << JInt(1), JInt(1), JInt(2) >>,
      << JInt(2), JInt(1), JInt(1) >>,
      << JInt(1), JInt(2), JInt(2) >> }

ValueLists == { << JInt(1), JInt(2) >>, << JInt(2), JInt(1) >>, << JInt(1) >> }

\* 1.0 and 1.0009
Floats == {10000, 10009}

Docs ==
    { Doc(items, g, v, TRUE, n, values) :
        items \in ItemLists, g \in {"2020", "2021"}, v \in {1, 2},
        n \in Floats, values \in ValueLists }
    \cup
    { Doc(items, "2020", 1, FALSE, 0, values) : items \in ItemLists, values \in ValueLists }

MetaPtr == << "/", "meta" >>

GeneratedAtPtr == << "/", "meta", "/", "generated_at" >>

\* --tolerance, in ten-thousandths, with the --ignore list
Options ==
    { [tolerance |-> 0, ignore |-> << >>],
      [tolerance |-> 5, ignore |-> << >>],
      [tolerance |-> 10, ignore |-> << >>],
      [tolerance |-> 0, ignore |-> << GeneratedAtPtr >>],
      [tolerance |-> 0, ignore |-> << MetaPtr >>] }

InitCompare ==
    /\ \E e \in Docs : \E a \in Docs : \E o \in Options : \E paths \in BOOLEAN :
         /\ ~paths => (e = a /\ o.tolerance = 0 /\ o.ignore = << >>)
         /\ unit = [fn |-> "compare_json", paths |-> paths, expected |-> e, actual |-> a,
                     tolerance |-> o.tolerance, ignore |-> o.ignore,
                     done |-> FALSE, out |-> UsageReport]
    /\ Idle

\* main of compare_json.py
Compare ==
    /\ unit.fn = "compare_json"
    /\ ~unit.done
    /\ unit' = [unit EXCEPT
                  !.done = TRUE,
                  !.out = IF ~unit.paths THEN UsageReport
                          ELSE Report(first_diff(unit.expected, unit.actual, << >>,
                                                 unit.ignore))]
    /\ UNCHANGED EvaluatorVars

SpecCompare == InitCompare /\ [][Compare]_vars

\* ------------------------------------------------------------------ claims

NamedKinds == {"ParseError", "IncludeIOError", "IncludeCycleError"}

\* C1: an exception that leaves the outermost call of _eval_file, and so
\* reaches main, is a ParseError, an IncludeIOError or an IncludeCycleError
\* (the fourth kind, top-level file-not-found, is reported by main itself
\* before it calls _eval_file); no other exception reaches the caller.
OnlyNamedErrorKinds ==
    (pc = "eval" /\ frames = << >> /\ exc # NoExc) => exc.kind \in NamedKinds

StrippedLine(f) == Strip(f.lines[f.i])

Parts(f) == SplitOnce(StrippedLine(f))

IsCommand(f, cmd) == Lower(Parts(f)[1]) = cmd

BaseCommand == << "@", "b", "a", "s", "e" >>

IncludeCommand == << "@", "i", "n", "c", "l", "u", "d", "e" >>

RangeCommand == << "@", "r", "a", "n", "g", "e" >>

BadBaseArgument(f) ==
    \/ Len(Parts(f)) # 2
    \/ ~PyInt(Parts(f)[2], 10).ok
    \/ PyInt(Parts(f)[2], 10).val \notin 2..36

BadIncludeArgument(f) == Len(Parts(f)) # 2

BadRangeArgument(f) ==
    \/ Len(Parts(f)) # 2
    \/ Find(Parts(f)[2], DotDot) = 0
    \/ ~parse_int_token(Take(Parts(f)[2], Find(Parts(f)[2], DotDot) - 1), f.cur_base).ok
    \/ ~parse_int_token(Drop(Parts(f)[2], Find(Parts(f)[2], DotDot) + 1), f.cur_base).ok

\* the line the activation f is at starts with '@' and is not a well-formed
\* directive
AtMalformedDirective(f) ==
    /\ f.at = "loop"
    /\ f.i <= Len(f.lines)
    /\ StrippedLine(f) # << >>
    /\ StrippedLine(f)[1] = "@"
    /\ \/ IsCommand(f, BaseCommand) /\ BadBaseArgument(f)
       \/ IsCommand(f, IncludeCommand) /\ BadIncludeArgument(f)
       \/ IsCommand(f, RangeCommand) /\ BadRangeArgument(f)
       \/ ~IsCommand(f, BaseCommand) /\ ~IsCommand(f, IncludeCommand)
            /\ ~IsCommand(f, RangeCommand)

\* C2: a line that starts with '@' and is not a well-formed directive makes
\* the evaluation fail with ParseError, in strict and non-strict mode alike:
\* the exception raised at such a line is a ParseError.
MalformedDirectiveIsParseError ==
    (pc = "eval" /\ frames # << >> /\ exc # NoExc /\ AtMalformedDirective(Top))
        => exc.kind = "ParseError"

\* C3: every activation of _eval_file, whether it returns or raises, leaves
\* `stack` as it was at the call, and `stack` is empty whenever no activation
\* is left.
StackRestoredOnEveryExit ==
    /\ [][Len(frames') < Len(frames) => stack' = Top.entry_stack]_vars
    /\ [](frames = << >> => stack = << >>)

\* C3 witness: a nested activation has raised and has been unwound, and the
\* includer, whose own entry is back on top of `stack`, is about to unwind
NestedRaiseUnwound ==
    /\ exc # NoExc
    /\ Len(frames) = 2
    /\ Len(reads) = 3
    /\ Len(stack) = 2

\* the identities of the activations that have pushed theirs, outermost first
ActiveIdentities ==
    [k \in 1..Len(SelectSeq(frames, LAMBDA f : f.at # "enter")) |-> frames[k].resolved]

\* C4: an activation entered for an identity that an active activation
\* already has raises IncludeCycleError at once, without reading anything,
\* and the error carries the active identities in inclusion order followed
\* by the repeated one.
CycleRaisedBeforeRead ==
    [][(Running /\ Top.at = "enter" /\ InSeq(Resolve(Top.path), ActiveIdentities))
         => /\ exc'.kind = "IncludeCycleError"
            /\ exc'.chain = Append(ActiveIdentities, Resolve(Top.path))
            /\ reads' = reads
            /\ Len(frames') = Len(frames) - 1]_vars

\* C4 witness: a mutual cycle through three files has just been detected
CycleOfThreeDetected ==
    /\ exc.kind = "IncludeCycleError"
    /\ exc.chain = << FileA, FileSB, FileSA, FileA >>
    /\ Len(frames) = 3
    /\ Len(reads) = 3

\* C5: no identity appears twice in `stack`.
NoIdentityTwiceOnStack ==
    \A i \in 1..Len(stack) : \A j \in 1..Len(stack) : i # j => stack[i] # stack[j]

\* C5 witness: three identities are on the stack and a fourth activation is
\* entered for the outermost one
ReentryAtDepthThree ==
    /\ Len(stack) = 3
    /\ Len(frames) = 4
    /\ Top.at = "enter"
    /\ Resolve(Top.path) = stack[1]

\* C6 as stated: the evaluation ends, and the activations nested at any
\* moment are never more than the files.
TerminatesWithinFiles ==
    /\ <>(pc = "done")
    /\ [](Len(frames) <= Cardinality(TextFiles))

\* C6 amended: the evaluation ends, `stack` never holds more entries than
\* there are files and one directory, and the activations nested at any
\* moment are at most one more than the files (the innermost being the one
\* that finds the cycle, or the one entered for a directory).
TerminatesWithinFilesPlusOne ==
    /\ <>(pc = "done")
    /\ [](Len(frames) <= Cardinality(TextFiles) + 1)
    /\ [](Len(stack) <= Cardinality(TextFiles) + 1)

\* C6 witness: every file is active and one more activation is entered
DepthFilesPlusOne == Len(frames) = Cardinality(TextFiles) + 1

\* C7: the return of an included file leaves the includer's current base as
\* it was at the @include line.
IncludeKeepsBase ==
    [][(Len(frames') = Len(frames) - 1 /\ frames' # << >>)
         => frames'[Len(frames')].cur_base = frames[Len(frames')].cur_base]_vars

\* C7 witness: the included file ended in base 16, and the includer, still in
\* base 10, has read its next line, 10, as ten
BackInBaseTen ==
    /\ fs[FileA] = JoinLines(<< IncludeCommand \o << " ", "s", "/", "b" >>, << "1", "0" >> >>)
    /\ fs[FileSB] = JoinLines(<< BaseCommand \o << " ", "1", "6" >> >>)
    /\ Len(frames) = 1
    /\ Top.at = "loop"
    /\ Top.i = 3
    /\ Top.cur_base = 10
    /\ Top.total = 10

IsBaseLine(line) == process_line(line, 10, FALSE).op = "set_base"

\* the base set by the last @base directive among the first n lines, or start
RECURSIVE LastBase(_, _, _)
LastBase(lines, n, start) ==
    IF n = 0 THEN start
    ELSE IF IsBaseLine(lines[n]) THEN process_line(lines[n], 10, FALSE).val
    ELSE LastBase(lines, n - 1, start)

\* the base the text of the files prescribes for the line activation d is at
RECURSIVE PrescribedBase(_)
PrescribedBase(d) ==
    LastBase(frames[d].lines, frames[d].i - 1,
             IF d = 1 THEN argv.base ELSE PrescribedBase(d - 1))

\* C8: the tokens of a line are parsed in the base of the last @base
\* directive before it in its file, or, if there is none, in the base the
\* file started with: --base for the top-level file, the includer's current
\* base at the @include line for an included file.
TokensParsedInPrescribedBase ==
    \A d \in 1..Len(frames) :
        frames[d].at = "loop" => token_base(frames[d]) = PrescribedBase(d)

\* C8 witness: an included file that inherited base 16 from an @base of its
\* includer has read 10 as sixteen
InheritedBaseSixteen ==
    /\ Len(frames) = 2
    /\ Top.at = "loop"
    /\ argv.base = 10
    /\ Top.base = 16
    /\ Top.total = 16

RECURSIVE IterSum(_, _)
IterSum(lo, hi) == IF lo > hi THEN 0 ELSE lo + IterSum(lo + 1, hi)

\* C9: @range A..B adds the sum of every integer from min(A,B) to max(A,B),
\* and @range B..A adds the same.
RangeSumIsExact ==
    (unit.fn = "sum_inclusive_range" /\ unit.done)
        => /\ unit.out = IterSum(IF unit.a <= unit.b THEN unit.a ELSE unit.b,
                                 IF unit.a <= unit.b THEN unit.b ELSE unit.a)
           /\ unit.rev = unit.out

\* C9 witness: a reversed range of eleven integers across zero
ReversedRangeAcrossZero ==
    /\ unit.fn = "sum_inclusive_range"
    /\ unit.done
    /\ unit.a = 6
    /\ unit.b = 0 - 4
    /\ unit.out = 11

\* a digit of base b written in ASCII
AsciiDigitOf(c, base) ==
    \/ IndexOf(AsciiDigits, c) > 0 /\ IndexOf(AsciiDigits, c) - 1 < base
    \/ IndexOf(LowerLetters, LowerChar(c)) > 0 /\ IndexOf(LowerLetters, LowerChar(c)) + 9 < base

RECURSIVE AsciiValue(_, _, _)
AsciiValue(s, base, acc) ==
    IF s = << >> THEN acc
    ELSE AsciiValue(Tail(s), base,
                    acc * base + (IF IndexOf(AsciiDigits, s[1]) > 0
                                  THEN IndexOf(AsciiDigits, s[1]) - 1
                                  ELSE IndexOf(LowerLetters, LowerChar(s[1])) + 9))

GrammarUnsigned(s, base) ==
    IF s # << >> /\ \A k \in 1..Len(s) : AsciiDigitOf(s[k], base)
    THEN Valid(AsciiValue(s, base, 0))
    ELSE Invalid

\* the token grammar: separators removed, one optional sign, ASCII digits
GrammarParse(t, base) ==
    IF t # << >> /\ t[1] = "-"
    THEN (IF GrammarUnsigned(Tail(t), base).ok
          THEN Valid(0 - GrammarUnsigned(Tail(t), base).val) ELSE Invalid)
    ELSE IF t # << >> /\ t[1] = "+" THEN GrammarUnsigned(Tail(t), base)
    ELSE GrammarUnsigned(t, base)

\* C10: a trimmed token is accepted exactly when, its '_' and ',' removed, it
\* is an optional sign followed by one or more ASCII digits of the base, and
\* then it yields that value; every other token is invalid.
TokenGrammarExact ==
    (unit.fn = "parse_int_token" /\ unit.done /\ Strip(unit.token) = unit.token)
        => unit.out = GrammarParse(strip_separators(unit.token), unit.base)

\* the lines of the top-level file a
TopLines == read_lines_text(fs[FileA])

IsDirectiveLine(line) == Strip(line) # << >> /\ Strip(line)[1] = "@"

IsSkippedLine(line) == Strip(line) = << >> \/ Strip(line)[1] = "#"

\* the token of a data line: what is left of the inline comment, trimmed
TokenOf(line) == Strip(split_inline_comment(line))

\* a data line whose token is not an integer of the base
IsInvalidData(line, base) ==
    /\ ~IsSkippedLine(line)
    /\ TokenOf(line) # << >>
    /\ ~parse_int_token(TokenOf(line), base).ok

\* the sum of the valid tokens among the first n lines
RECURSIVE SumOfValid(_, _, _)
SumOfValid(lines, n, base) ==
    IF n = 0 THEN 0
    ELSE SumOfValid(lines, n - 1, base)
         + (IF IsSkippedLine(lines[n]) \/ TokenOf(lines[n]) = << >> THEN 0
            ELSE parse_int_token(TokenOf(lines[n]), base).val)

FirstInvalid(lines, base) ==
    CHOOSE k \in 1..Len(lines) :
        /\ IsInvalidData(lines[k], base)
        /\ \A j \in 1..(k - 1) : ~IsInvalidData(lines[j], base)

\* a finished run on file a, which holds no directive
DirectiveFreeRunDone ==
    /\ pc = "done"
    /\ argv.input_file = << << "a" >> >>
    /\ 2 <= argv.base /\ argv.base <= 36
    /\ \A k \in 1..Len(TopLines) : ~IsDirectiveLine(TopLines[k])

MarksComment(raw, i) == i > 1 /\ raw[i] = "#" /\ IsSpace(raw[i - 1])

\* C12: on a data line the comment starts at the first '#' that follows a
\* whitespace character and what precedes it is kept; when no '#' follows a
\* whitespace character the whole line is kept, '#' included.
CommentNeedsWhitespace ==
    (unit.fn = "split_inline_comment" /\ unit.done /\ ~IsSkippedLine(unit.raw))
        => \/ /\ \A i \in 1..Len(unit.raw) : ~MarksComment(unit.raw, i)
              /\ unit.out = unit.raw
           \/ \E i \in 1..Len(unit.raw) :
                /\ MarksComment(unit.raw, i)
                /\ \A j \in 1..(i - 1) : ~MarksComment(unit.raw, j)
                /\ unit.out = SubSeq(unit.raw, 1, i - 1)

\* C12 witness: 4#bad is kept whole
HashInsideTokenKept ==
    /\ unit.fn = "split_inline_comment"
    /\ unit.done
    /\ unit.raw = << "4", "#", "b", "a", "d" >>
    /\ unit.out = << "4", "#", "b", "a", "d" >>

\* the text without one leading byte-order mark
WithoutOneBom(text) == IF text # << >> /\ text[1] = BOM THEN Tail(text) ELSE text

\* C13: exactly one leading byte-order mark is removed before the text is
\* split into lines: the lines are those of the text without its first
\* character when that is a byte-order mark, so a second one stays in the
\* first line.
OneBomStripped ==
    (unit.fn = "read_lines" /\ unit.done)
        => unit.out = SplitLines(WithoutOneBom(unit.text), << >>)

IncludeText(f) == Strip(Parts(f)[2])

\* the activation on top is at a well-formed @include line
AtInclude ==
    /\ Running
    /\ Top.at = "loop"
    /\ Top.i <= Len(Top.lines)
    /\ StrippedLine(Top) # << >>
    /\ StrippedLine(Top)[1] = "@"
    /\ IsCommand(Top, IncludeCommand)
    /\ Len(Parts(Top)) = 2
    /\ IncludeText(Top) # << >>

\* what the include path of the line leads to, starting in the directory
\* that holds the including file (the root for an absolute path)
IncludeTarget ==
    WalkFrom(IF PathOf(IncludeText(Top)).abs THEN RootDir ELSE Pop(Top.resolved),
             PathOf(IncludeText(Top)).parts, FALSE)

\* C14: an @include path is followed from the directory of the including
\* file, at every depth: when it leads to something, that is what is
\* evaluated next; when it leads nowhere, IncludeIOError is raised with the
\* path joined to the includer's directory; and that error is never the
\* top-level "File not found" report.
IncludeRelativeToIncluder ==
    /\ [][AtInclude =>
            IF IncludeTarget.found
            THEN /\ Len(frames') = Len(frames) + 1
                 /\ Resolve(frames'[Len(frames')].path) = IncludeTarget.at
                 /\ exc' = NoExc
            ELSE /\ exc'.kind = "IncludeIOError"
                 /\ exc'.text = Join(Parent(Top.path), PathOf(IncludeText(Top)))
                 /\ frames' = frames]_vars
    /\ [](exc.kind = "IncludeIOError" => stderr # << "Error: File not found" >>)

\* C14 witness: s/b, included by a, includes s/b, which is looked up in s
\* and not found there
NestedIncludeMissing ==
    /\ exc.kind = "IncludeIOError"
    /\ Len(frames) = 2
    /\ Top.resolved = FileSB
    /\ exc.text = [abs |-> FALSE, parts |-> << << "s" >>, << "s" >>, << "b" >> >>]

BaseInRange == 2 <= argv.base /\ argv.base <= 36

\* C15: SUM=<total> is written only by a run that ends with exit code 0 and
\* no error, at its very end; a run that ends in an error writes nothing to
\* stdout and reports one error, with exit code 2 for a ParseError, a usage
\* error or a --base out of range, and 1 for a missing top-level file, a
\* missing include or an include cycle.
OutputOnlyAfterSuccess ==
    /\ stdout # << >> =>
          /\ pc = "done"
          /\ exit_code = 0
          /\ exc = NoExc
          /\ frames = << >>
          /\ stderr = << >>
    /\ (pc = "done" /\ exit_code = 0) => Len(stdout) = 1
    /\ (pc = "done" /\ exit_code # 0) =>
          /\ stdout = << >>
          /\ Len(stderr) = 1
          /\ argv.input_file = << >> => exit_code = 2
          /\ ~BaseInRange => exit_code = 2
          /\ (argv.input_file # << >> /\ BaseInRange /\ ~Exists(InputPath)) => exit_code = 1
          /\ exc.kind = "ParseError" => exit_code = 2
          /\ exc.kind = "IncludeIOError" => exit_code = 1
          /\ exc.kind = "IncludeCycleError" => exit_code = 1

\* C15 witness: a ParseError raised in an included file, after both files
\* were read, ended the run with exit code 2 and nothing on stdout
ParseErrorInIncludeReported ==
    /\ pc = "done"
    /\ exc.kind = "ParseError"
    /\ Len(reads) = 2
    /\ exit_code = 2
    /\ stdout = << >>

CompareDone == unit.fn = "compare_json" /\ unit.done /\ unit.paths

Meta(d) == Get(d, "meta")

\* the document with the value at /meta/generated_at blanked
WithoutGeneratedAt(d) ==
    [d EXCEPT !.vals[IndexOf(d.keys, "meta")].vals[1] = JStr("")]

\* C16: a difference at an ignored pointer, nested or not, is not reported:
\* with --ignore /meta/generated_at, documents that are the same but for the
\* value at that pointer compare EQUAL with exit code 0, and documents that
\* differ at /meta/version as well are NOT_EQUAL with exit code 2 and
\* FIRST_DIFF /meta/version.
NestedIgnoreHonoured ==
    (CompareDone /\ unit.ignore = << GeneratedAtPtr >>)
        => /\ WithoutGeneratedAt(unit.expected) = WithoutGeneratedAt(unit.actual)
                => (unit.out.verdict = "EQUAL" /\ unit.out.exit_code = 0)
           /\ ( /\ unit.expected.vals[1] = unit.actual.vals[1]
                /\ Get(Meta(unit.expected), "version") # Get(Meta(unit.actual), "version") )
                => /\ unit.out.verdict = "NOT_EQUAL"
                   /\ unit.out.exit_code = 2
                   /\ unit.out.first_diff = << "/", "meta", "/", "version" >>

\* the document with the value under key k blanked
Without(d, k) == [d EXCEPT !.vals[IndexOf(d.keys, k)] = JNone]

SameBut(k) ==
    /\ HasKey(unit.expected, k)
    /\ HasKey(unit.actual, k)
    /\ Without(unit.expected, k) = Without(unit.actual, k)

Distance(x, y) == IF x >= y THEN x - y ELSE y - x

\* C17: two numbers at the same pointer are equal when they differ by less
\* than --tolerance and are reported (NOT_EQUAL, exit code 2) when they
\* differ by more; with tolerance 0 only identical numbers are equal.
NumbersWithinTolerance ==
    (CompareDone /\ unit.ignore = << >> /\ SameBut("n"))
        => /\ Distance(Get(unit.expected, "n").num, Get(unit.actual, "n").num) < unit.tolerance
                => (unit.out.verdict = "EQUAL" /\ unit.out.exit_code = 0)
           /\ Distance(Get(unit.expected, "n").num, Get(unit.actual, "n").num) > unit.tolerance
                => (unit.out.verdict = "NOT_EQUAL" /\ unit.out.exit_code = 2)
           /\ unit.tolerance = 0
                => (unit.out.verdict = "EQUAL" <=> Get(unit.expected, "n") = Get(unit.actual, "n"))

Count(seq, x) == Cardinality({i \in 1..Len(seq) : seq[i] = x})

SameMultiset(xs, ys) ==
    /\ Len(xs) = Len(ys)
    /\ \A i \in 1..Len(xs) : Count(xs, xs[i]) = Count(ys, xs[i])

\* the first index, counted from 0, at which xs and ys differ
FirstDifferingIndex(xs, ys) ==
    CHOOSE i \in 0..Len(xs) :
        /\ \A j \in 1..i : j <= Len(ys) /\ xs[j] = ys[j]
        /\ i = Len(xs) \/ i >= Len(ys) \/ xs[i + 1] # ys[i + 1]

\* C18: the array under "items" is compared as a multiset: a reordering is
\* EQUAL, and different multiplicities are reported with FIRST_DIFF /items;
\* the array under another key is compared in order and the first differing
\* index is reported.
ItemsComparedAsMultiset ==
    /\ (CompareDone /\ unit.ignore = << >> /\ SameBut("items"))
          => IF SameMultiset(Get(unit.expected, "items").vals, Get(unit.actual, "items").vals)
             THEN unit.out.verdict = "EQUAL" /\ unit.out.exit_code = 0
             ELSE /\ unit.out.verdict = "NOT_EQUAL"
                  /\ unit.out.exit_code = 2
                  /\ unit.out.first_diff = << "/", "items" >>
    /\ ( /\ CompareDone
         /\ unit.ignore = << >>
         /\ SameBut("values")
         /\ Get(unit.expected, "values") # Get(unit.actual, "values") )
          => /\ unit.out.verdict = "NOT_EQUAL"
             /\ unit.out.exit_code = 2
             /\ unit.out.first_diff =
                  << "/", "values", "/",
                     IndexNames[FirstDifferingIndex(Get(unit.expected, "values").vals,
                                                    Get(unit.actual, "values").vals) + 1] >>

\* C19: entering a file that was read before but is not active any more is
\* not a cycle: its identity is pushed and it is read again; and when an
\* included file returns, its total is added to the includer's.
RepeatedIncludeIsNoCycle ==
    /\ [][( /\ Running
            /\ Top.at = "enter"
            /\ InSeq(Resolve(Top.path), reads)
            /\ ~InSeq(Resolve(Top.path), ActiveIdentities) )
           => /\ exc' = NoExc
              /\ Len(frames') = Len(frames)
              /\ frames'[Len(frames')].at = "read"
              /\ stack' = Append(stack, Resolve(Top.path))]_vars
    /\ [][(Len(frames') = Len(frames) - 1 /\ frames' # << >> /\ exc' = NoExc)
           => frames'[Len(frames')].total = frames[Len(frames')].total + Top.total]_vars

\* C19 witness: s/a was reached through s/b and then included directly by
\* a, and its 10 was added both times
DiamondSummedTwice ==
    /\ pc = "done"
    /\ reads = << FileA, FileSB, FileSA, FileSA >>
    /\ exit_code = 0
    /\ stdout = << << "SUM=", 20 >> >>

Outcome(k, t) == [kind |-> k, total |-> t]

\* What a call of _eval_file yields when it is followed to its end in one
\* go: the total it returns (kind "none"), or the kind of the exception that
\* leaves it.
RECURSIVE EvalWhole(_, _, _, _)
RECURSIVE EvalRest(_, _, _, _, _, _, _)

EvalInclude(path, lines, i, total, cur_base, strict, stk, inc_path) ==
    IF ~Exists(inc_path) THEN Outcome("IncludeIOError", 0)
    ELSE IF EvalWhole(inc_path, cur_base, strict, stk).kind # "none"
    THEN EvalWhole(inc_path, cur_base, strict, stk)
    ELSE EvalRest(path, lines, i + 1,
                  total + EvalWhole(inc_path, cur_base, strict, stk).total,
                  cur_base, strict, stk)

EvalRest(path, lines, i, total, cur_base, strict, stk) ==
    IF i > Len(lines) THEN Outcome("none", total)
    ELSE IF EffectOf[lines[i], cur_base, strict].op = "continue"
    THEN EvalRest(path, lines, i + 1, total, cur_base, strict, stk)
    ELSE IF EffectOf[lines[i], cur_base, strict].op = "set_base"
    THEN EvalRest(path, lines, i + 1, total, EffectOf[lines[i], cur_base, strict].val,
                  strict, stk)
    ELSE IF EffectOf[lines[i], cur_base, strict].op = "add"
    THEN EvalRest(path, lines, i + 1, total + EffectOf[lines[i], cur_base, strict].val,
                  cur_base, strict, stk)
    ELSE IF EffectOf[lines[i], cur_base, strict].op = "raise"
    THEN Outcome(EffectOf[lines[i], cur_base, strict].kind, 0)
    ELSE EvalInclude(path, lines, i, total, cur_base, strict, stk,
                     include_path(path, PathOf(EffectOf[lines[i], cur_base, strict].text)))

EvalWhole(path, base, strict, stk) ==
    IF InSeq(Resolve(path), stk) THEN Outcome("IncludeCycleError", 0)
    ELSE IF ReadFails(path) THEN Outcome(ReadError(path), 0)
    ELSE EvalRest(path, read_lines_text(fs[Walk(path, FALSE).at]), 1, 0, base, strict,
                  Append(stk, Resolve(path)))

\* the file of the activation on top, evaluated on its own as a top-level
\* file, in the base its includer has at the @include line
IncludedAlone ==
    EvalWhole(Top.path, frames[Len(frames) - 1].cur_base, frames[Len(frames) - 1].strict,
              << >>)

\* the exception reports a cycle through a file that was active at the call
CycleThroughIncluder ==
    /\ exc'.kind = "IncludeCycleError"
    /\ InSeq(exc'.chain[Len(exc'.chain)], Top.entry_stack)

\* C20: when an included file returns, the includer's total grows by what
\* the file yields when evaluated on its own as a top-level file in the
\* includer's current base with the same strict flag; and when an exception
\* leaves the included file, other than a cycle through a file that was
\* active at the call, it is of the kind the file raises on its own.
IncludeAddsStandaloneValue ==
    /\ [][(Len(frames') = Len(frames) - 1 /\ frames' # << >> /\ exc' = NoExc)
           => /\ IncludedAlone.kind = "none"
              /\ frames'[Len(frames')].total
                    = frames[Len(frames')].total + IncludedAlone.total]_vars
    /\ [][( /\ Len(frames') = Len(frames) - 1
            /\ frames' # << >>
            /\ exc' # NoExc
            /\ ~CycleThroughIncluder )
           => exc'.kind = IncludedAlone.kind]_vars

\* C20 witness: a, in base 16 after its @base line, has included s/b and
\* added the 10 of s/b as sixteen
IncludedInCurrentBase ==
    /\ Len(frames) = 1
    /\ reads = << FileA, FileSB >>
    /\ Top.base = 10
    /\ Top.cur_base = 16
    /\ Top.i = 3
    /\ Top.total = 16

\* the activation on top is at an @base line whose argument is missing, is
\* not a decimal integer, or is outside 2..36
AtBadBase ==
    /\ Running
    /\ Top.at = "loop"
    /\ Top.i <= Len(Top.lines)
    /\ StrippedLine(Top) # << >>
    /\ StrippedLine(Top)[1] = "@"
    /\ IsCommand(Top, BaseCommand)
    /\ BadBaseArgument(Top)

\* C21: the starting base and the current base of every activation are in
\* 2..36 at all times, and an @base line with a bad argument raises
\* ParseError and leaves every activation, its base included, as it was.
BaseAlwaysInRange ==
    /\ [](\A d \in 1..Len(frames) :
            /\ frames[d].base \in 2..36
            /\ frames[d].cur_base \in 2..36)
    /\ [](argv.base \notin 2..36 =>
            /\ frames = << >>
            /\ reads = << >>
            /\ pc = "done" => exit_code = 2)
    /\ [][AtBadBase => (exc'.kind = "ParseError" /\ frames' = frames)]_vars

\* C21 witness: in base 16 after an @base 16 line, @base 37 has raised
\* ParseError and the base is still 16
BadBaseRejectedInBaseSixteen ==
    /\ Len(frames) = 1
    /\ Top.at = "loop"
    /\ Top.i = 2
    /\ Len(Top.lines) >= 2
    /\ Top.lines[2] = << "@", "b", "a", "s", "e", " ", "3", "7" >>
    /\ Top.cur_base = 16
    /\ exc.kind = "ParseError"
    /\ exc.msg = "@base must be in the range 2..36"

\* the activation on top is at a line that starts with '@' and holds a '#'
\* that follows a whitespace character
AtCommentedDirective ==
    /\ Running
    /\ Top.at = "loop"
    /\ Top.i <= Len(Top.lines)
    /\ StrippedLine(Top) # << >>
    /\ StrippedLine(Top)[1] = "@"
    /\ \E i \in 1..Len(Top.lines[Top.i]) : MarksComment(Top.lines[Top.i], i)

\* C22: a directive line keeps its inline comment as part of the argument:
\* @base with a comment raises ParseError for a non-integer argument and
\* leaves the base alone, @range with a comment fails and adds nothing, and
\* @include with a comment looks up the path that holds the '#' and what
\* follows it, never the path in front of the comment.
DirectiveKeepsInlineComment ==
    [][AtCommentedDirective =>
        /\ Len(Parts(Top)) = 2
        /\ IsCommand(Top, BaseCommand) =>
              /\ exc'.kind = "ParseError"
              /\ exc'.msg = "@base argument must be an integer"
              /\ frames' = frames
        /\ IsCommand(Top, RangeCommand) =>
              /\ exc' # NoExc
              /\ frames' = frames
        /\ IsCommand(Top, IncludeCommand) =>
              /\ InSeq("#", IncludeText(Top))
              /\ IF IncludeTarget.found
                 THEN /\ Len(frames') = Len(frames) + 1
                      /\ frames'[Len(frames')].path
                            = Join(Parent(Top.path), PathOf(IncludeText(Top)))
                 ELSE /\ exc'.kind = "IncludeIOError"
                      /\ exc'.text = Join(Parent(Top.path), PathOf(IncludeText(Top)))
                      /\ frames' = frames]_vars

\* C22 witness: "@base 16 # c" has raised ParseError in a file whose base
\* is still 10
CommentedBaseRejected ==
    /\ Len(frames) = 1
    /\ Top.at = "loop"
    /\ Top.i <= Len(Top.lines)
    /\ Top.lines[Top.i]
          = << "@", "b", "a", "s", "e", " ", "1", "6", " ", "#", " ", "c" >>
    /\ Top.cur_base = 10
    /\ exc.kind = "ParseError"
    /\ exc.msg = "@base argument must be an integer"

====
